---- MODULE Spec2Model ----
(***************************************************************************)
(* Earley recognizer with parse-tree reconstruction (src/parser.py).       *)
(*                                                                         *)
(* Text is modelled as sequences of atoms.  A grammar-file line is the     *)
(* sequence of its whitespace-separated words; an input string is the      *)
(* sequence of its characters; a lexeme is a sequence of characters; a     *)
(* left-hand side (a dict key) is the sequence of the words before the     *)
(* arrow, so the key "" is <<>> and the key "S" is <<"S">>.  Positions i   *)
(* and j are 0-based as in the code; chart[i] of the code is chart[i + 1]  *)
(* here.  None is the empty sequence <<>> where a value is optional        *)
(* (start_symbol, tree), the optional value v being <<v>>.                 *)
(***************************************************************************)
EXTENDS Integers, Sequences, FiniteSets, TLC

VARIABLES
    file_exists,    \* whether gra.txt exists on disk
    file,           \* the lines of gra.txt
    pc,             \* position of main()
    grammar,        \* EarleyParser.grammar: entries [lhs, prods] in key insertion order
    start_symbol,   \* EarleyParser.start_symbol (<<>> is None)
    terminals,      \* EarleyParser.terminals
    non_terminals,  \* EarleyParser.non_terminals
    input_string,   \* the line read by main()
    tokens,         \* parse(): tokens
    chart,          \* parse(): chart
    i,              \* parse(): index of the outer for loop
    j,              \* parse(): index of the inner while loop
    success,        \* main(): success
    tree            \* main(): tree (<<>> is None, <<G>> a graph)

vars == <<file_exists, file, pc, grammar, start_symbol, terminals, non_terminals,
          input_string, tokens, chart, i, j, success, tree>>

-----------------------------------------------------------------------------
(* Bounds of the model *)

MaxLines == 3       \* lines of a grammar file
MaxInput == 3       \* characters of an input string

(* Words of a grammar line *)
Arrow == "U+2192"   \* the word '→'
AsciiArrow == "->"
Hash == "#"

LinePool ==
    { <<"S", Arrow, "S", "S">>,
      <<"S", AsciiArrow, "op_suma">>,
      <<"S", Arrow, "A">>,
      <<"A", Arrow>>,
      <<"A", Arrow, "S", "A">>,
      <<Arrow, "op_suma">>,
      <<Hash, Arrow, "S">> }

Files == UNION { [1..k -> LinePool] : k \in 0..MaxLines }

InputChars == {"+", "1"}

Inputs == UNION { [1..k -> InputChars] : k \in 0..MaxInput }

-----------------------------------------------------------------------------
(* Helpers on sequences *)

Range(s) == { s[k] : k \in 1..Len(s) }

Min(S) == CHOOSE x \in S : \A y \in S : x <= y

\* index of the first occurrence of w in line (str.split(w, 1) splits there)
FirstIndex(line, w) == Min({ k \in 1..Len(line) : line[k] = w })

-----------------------------------------------------------------------------
(* main(): the example grammar written when gra.txt is missing *)

grammar_content ==
    << <<"E", Arrow, "E", "op_suma", "T">>,
       <<"E", Arrow, "T">>,
       <<"T", Arrow, "T", "op_mul", "F">>,
       <<"T", Arrow, "F">>,
       <<"F", Arrow, "id">>,
       <<"F", Arrow, "num">>,
       <<"F", Arrow, "pari", "E", "pard">> >>

-----------------------------------------------------------------------------
(* EarleyParser.load_grammar *)

\* grammar[left].append(right) on a defaultdict(list)
GrammarAppend(g, left, right) ==
    IF \E k \in 1..Len(g) : g[k].lhs = left
    THEN [ k \in 1..Len(g) |->
             IF g[k].lhs = left
             THEN [g[k] EXCEPT !.prods = Append(@, right)]
             ELSE g[k] ]
    ELSE Append(g, [lhs |-> left, prods |-> <<right>>])

\* line.split(sep, 1), left.strip(), right.strip().split()
SplitRule(g, line, sep) ==
    LET k == FirstIndex(line, sep)
    IN  GrammarAppend(g, SubSeq(line, 1, k - 1), SubSeq(line, k + 1, Len(line)))

\* the body of the for loop over the lines of the file
LoadLine(g, line) ==
    IF line = <<>> \/ line[1] = Hash THEN g
    ELSE IF Arrow \in Range(line) THEN SplitRule(g, line, Arrow)
    ELSE IF AsciiArrow \in Range(line) THEN SplitRule(g, line, AsciiArrow)
    ELSE g

RECURSIVE LoadLines(_, _, _)
LoadLines(g, lines, k) ==
    IF k > Len(lines) THEN g
    ELSE LoadLines(LoadLine(g, lines[k]), lines, k + 1)

load_grammar(exists, lines) ==
    IF ~exists THEN <<>> ELSE LoadLines(<<>>, lines, 1)

-----------------------------------------------------------------------------
(* EarleyParser.analyze_grammar *)

Keys(g) == { g[k].lhs : k \in 1..Len(g) }

\* grammar.get(key, [])
Productions(g, key) ==
    IF key \in Keys(g)
    THEN g[CHOOSE k \in 1..Len(g) : g[k].lhs = key].prods
    ELSE <<>>

\* every right-hand side of the grammar
AllProductions(g) == UNION { Range(g[k].prods) : k \in 1..Len(g) }

analyze_start_symbol(g) == IF g = <<>> THEN <<>> ELSE << g[1].lhs >>

analyze_non_terminals(g) == Keys(g)

analyze_terminals(g) ==
    { sym \in UNION { Range(p) : p \in AllProductions(g) } : <<sym>> \notin Keys(g) }

-----------------------------------------------------------------------------
(* EarleyParser.tokenize *)

Spaces == {" "}
Digits == {"0", "1", "2", "3", "4", "5", "6", "7", "8", "9"}
Letters == {"a", "b", "x", "y"}
Operators == {"+", "-", "*", "/", "(", ")"}

OperatorKind(c) ==
    IF c = "+" THEN "op_suma"
    ELSE IF c = "*" THEN "op_mul"
    ELSE IF c = "(" THEN "pari"
    ELSE IF c = ")" THEN "pard"
    ELSE IF c = "-" THEN "op_suma"
    ELSE "op_mul"

\* first index >= k of s whose character is not in class (the inner while loops)
RECURSIVE RunEnd(_, _, _)
RunEnd(s, k, class) ==
    IF k <= Len(s) /\ s[k] \in class THEN RunEnd(s, k + 1, class) ELSE k

RECURSIVE TokenizeFrom(_, _, _)
TokenizeFrom(s, k, toks) ==
    IF k > Len(s) THEN toks
    ELSE LET char == s[k] IN
         IF char \in Spaces THEN TokenizeFrom(s, k + 1, toks)
         ELSE IF char \in Digits THEN
              LET e == RunEnd(s, k, Digits)
              IN  TokenizeFrom(s, e, Append(toks, <<"num", SubSeq(s, k, e - 1)>>))
         ELSE IF char \in Operators THEN
              TokenizeFrom(s, k + 1, Append(toks, <<OperatorKind(char), <<char>> >>))
         ELSE IF char \in Letters THEN
              LET e == RunEnd(s, k, Letters \cup Digits \cup {"_"})
              IN  TokenizeFrom(s, e, Append(toks, <<"id", SubSeq(s, k, e - 1)>>))
         ELSE TokenizeFrom(s, k + 1, toks)

tokenize(s) == TokenizeFrom(s, 1, <<>>)

-----------------------------------------------------------------------------
(* EarleyItem *)

NoEnd == -1     \* end_pos = None

EarleyItem(rule, dot_pos, start_pos, end_pos) ==
    [rule |-> rule, dot_pos |-> dot_pos, start_pos |-> start_pos,
     end_pos |-> end_pos, children |-> <<>>]

\* EarleyItem.__eq__
ItemEq(a, b) ==
    /\ a.rule = b.rule
    /\ a.dot_pos = b.dot_pos
    /\ a.start_pos = b.start_pos

is_complete(item) == item.dot_pos >= Len(item.rule[2])

\* called on incomplete items only; the result is a word of the right-hand side
next_symbol(item) == item.rule[2][item.dot_pos + 1]

\* an entry of item.children: a token (a tuple) or a reference to the item
\* object stored at chart[pos][idx]
TokenChild(token) == [is_token |-> TRUE, token |-> token, pos |-> 0, idx |-> 0]
ItemChild(pos, idx) == [is_token |-> FALSE, token |-> <<>>, pos |-> pos, idx |-> idx]

Deref(ch, ref) == ch[ref.pos + 1][ref.idx + 1]

\* new_item in chart[pos]
InRow(new_item, row) == \E k \in 1..Len(row) : ItemEq(row[k], new_item)

\* chart[pos].append(new_item)
AppendTo(ch, pos, new_item) == [ch EXCEPT ![pos + 1] = Append(@, new_item)]

-----------------------------------------------------------------------------
(* EarleyParser.predict, scan, complete *)

RECURSIVE PredictFrom(_, _, _, _, _)
PredictFrom(ch, prods, key, pos, k) ==
    IF k > Len(prods) THEN ch
    ELSE LET new_item == EarleyItem(<<key, prods[k]>>, 0, pos, NoEnd)
         IN  PredictFrom(IF InRow(new_item, ch[pos + 1]) THEN ch
                         ELSE AppendTo(ch, pos, new_item),
                         prods, key, pos, k + 1)

\* predict without the test "new_item not in chart[pos]"
RECURSIVE PredictAllFrom(_, _, _, _, _)
PredictAllFrom(ch, prods, key, pos, k) ==
    IF k > Len(prods) THEN ch
    ELSE PredictAllFrom(AppendTo(ch, pos, EarleyItem(<<key, prods[k]>>, 0, pos, NoEnd)),
                        prods, key, pos, k + 1)

predict_NoMembershipTest(g, ch, non_terminal, pos) ==
    PredictAllFrom(ch, Productions(g, <<non_terminal>>), <<non_terminal>>, pos, 1)

\* predict that stops after the first production of the non-terminal
predict_FirstProductionOnly(g, ch, non_terminal, pos) ==
    PredictFrom(ch, SubSeq(Productions(g, <<non_terminal>>), 1, 1), <<non_terminal>>, pos, 1)

predict(g, ch, non_terminal, pos) ==
    PredictFrom(ch, Productions(g, <<non_terminal>>), <<non_terminal>>, pos, 1)

\* scan that does not record the token among the children
scan_ForgetsToken(ch, item, pos, token) ==
    AppendTo(ch, pos + 1,
             [EarleyItem(item.rule, item.dot_pos + 1, item.start_pos, pos + 1)
                EXCEPT !.children = item.children])

scan(ch, item, pos, token) ==
    LET new_item == [EarleyItem(item.rule, item.dot_pos + 1, item.start_pos, pos + 1)
                       EXCEPT !.children = Append(item.children, TokenChild(token))]
    IN  AppendTo(ch, pos + 1, new_item)

\* the for loop over chart[completed_item.start_pos]; the list is read live,
\* so items appended to it during the loop are visited too
RECURSIVE CompleteFrom(_, _, _, _)
CompleteFrom(ch, completed_ref, pos, k) ==
    LET completed_item == Deref(ch, completed_ref)
        row == ch[completed_item.start_pos + 1]
    IN  IF k > Len(row) THEN ch
        ELSE LET item == row[k] IN
             IF ~is_complete(item) /\ <<next_symbol(item)>> = completed_item.rule[1]
             THEN LET new_item ==
                        [EarleyItem(item.rule, item.dot_pos + 1, item.start_pos, pos)
                           EXCEPT !.children = Append(item.children, completed_ref)]
                  IN  CompleteFrom(IF InRow(new_item, ch[pos + 1]) THEN ch
                                   ELSE AppendTo(ch, pos, new_item),
                                   completed_ref, pos, k + 1)
             ELSE CompleteFrom(ch, completed_ref, pos, k + 1)

\* complete without the test of the symbol after the dot
RECURSIVE CompleteAnyFrom(_, _, _, _)
CompleteAnyFrom(ch, completed_ref, pos, k) ==
    LET completed_item == Deref(ch, completed_ref)
        row == ch[completed_item.start_pos + 1]
    IN  IF k > Len(row) THEN ch
        ELSE LET item == row[k] IN
             IF ~is_complete(item)
             THEN LET new_item ==
                        [EarleyItem(item.rule, item.dot_pos + 1, item.start_pos, pos)
                           EXCEPT !.children = Append(item.children, completed_ref)]
                  IN  CompleteAnyFrom(IF InRow(new_item, ch[pos + 1]) THEN ch
                                      ELSE AppendTo(ch, pos, new_item),
                                      completed_ref, pos, k + 1)
             ELSE CompleteAnyFrom(ch, completed_ref, pos, k + 1)

complete_AnyParent(ch, completed_ref, pos) == CompleteAnyFrom(ch, completed_ref, pos, 1)

\* complete that gives an item already in chart[pos] the new back-pointers
ReplaceChildren(row, new_item) ==
    [ k \in 1..Len(row) |->
        IF ItemEq(row[k], new_item)
        THEN [row[k] EXCEPT !.children = new_item.children]
        ELSE row[k] ]

RECURSIVE CompleteReplacingFrom(_, _, _, _)
CompleteReplacingFrom(ch, completed_ref, pos, k) ==
    LET completed_item == Deref(ch, completed_ref)
        row == ch[completed_item.start_pos + 1]
    IN  IF k > Len(row) THEN ch
        ELSE LET item == row[k] IN
             IF ~is_complete(item) /\ <<next_symbol(item)>> = completed_item.rule[1]
             THEN LET new_item ==
                        [EarleyItem(item.rule, item.dot_pos + 1, item.start_pos, pos)
                           EXCEPT !.children = Append(item.children, completed_ref)]
                  IN  CompleteReplacingFrom(
                          IF InRow(new_item, ch[pos + 1])
                          THEN [ch EXCEPT ![pos + 1] = ReplaceChildren(@, new_item)]
                          ELSE AppendTo(ch, pos, new_item),
                          completed_ref, pos, k + 1)
             ELSE CompleteReplacingFrom(ch, completed_ref, pos, k + 1)

complete_ReplacesBackPointers(ch, completed_ref, pos) ==
    CompleteReplacingFrom(ch, completed_ref, pos, 1)

complete(ch, completed_ref, pos) == CompleteFrom(ch, completed_ref, pos, 1)

-----------------------------------------------------------------------------
(* EarleyParser.build_tree *)

EmptyGraph == [nodes |-> <<>>, edges |-> <<>>]

\* G.add_node(current_id, label=..., type=...); current_id is Len(G.nodes)
AddGraphNode(G, label, type) ==
    [G EXCEPT !.nodes = Append(@, [label |-> label, type |-> type])]

RECURSIVE add_node_to_graph(_, _, _)
RECURSIVE AddChildren(_, _, _, _, _)
add_node_to_graph(ch, child, G) ==
    IF child.is_token
    THEN AddGraphNode(G, child.token[2], "terminal")
    ELSE LET item == Deref(ch, child)
             current_id == Len(G.nodes)
         IN  AddChildren(ch, item.children, 1, current_id,
                         AddGraphNode(G, item.rule[1], "non_terminal"))

AddChildren(ch, children, k, current_id, G) ==
    IF k > Len(children) THEN G
    ELSE LET child_id == Len(G.nodes)
             G2 == add_node_to_graph(ch, children[k], G)
         IN  AddChildren(ch, children, k + 1, current_id,
                         [G2 EXCEPT !.edges = Append(@, <<current_id, child_id>>)])

\* indices (1-based) of the complete start-symbol items with origin 0 in chart[final_pos]
StartItems(ch, start, final_pos) ==
    { k \in 1..Len(ch[final_pos + 1]) :
        LET item == ch[final_pos + 1][k]
        IN  /\ item.rule[1] = start
            /\ is_complete(item)
            /\ item.start_pos = 0 }

build_tree(ch, start, final_pos) ==
    IF StartItems(ch, start, final_pos) = {} THEN <<>>
    ELSE << add_node_to_graph(ch, ItemChild(final_pos, Min(StartItems(ch, start, final_pos)) - 1),
                              EmptyGraph) >>

-----------------------------------------------------------------------------
(* EarleyParser.parse *)

\* chart = [[] for _ in range(n + 1)] followed by the initial prediction
RECURSIVE SeedFrom(_, _, _, _)
SeedFrom(ch, prods, start, k) ==
    IF k > Len(prods) THEN ch
    ELSE SeedFrom(AppendTo(ch, 0, EarleyItem(<<start, prods[k]>>, 0, 0, NoEnd)),
                  prods, start, k + 1)

InitialChart(g, start, n) ==
    SeedFrom([p \in 1..(n + 1) |-> <<>>], Productions(g, start), start, 1)

\* if not self.start_symbol: None and '' are both falsy
NoStartSymbol(start) == start = <<>> \/ start[1] = <<>>

\* j += 1
NextJ(jj) == jj + 1

-----------------------------------------------------------------------------
(* State machine *)

NoParse ==
    /\ input_string = <<>>
    /\ tokens = <<>>
    /\ chart = <<>>
    /\ i = 0
    /\ j = 0
    /\ success = FALSE
    /\ tree = <<>>

Init ==
    /\ file_exists \in BOOLEAN
    /\ file \in (IF file_exists THEN Files ELSE {<<>>})
    /\ pc = "main"
    /\ grammar = <<>>
    /\ start_symbol = <<>>
    /\ terminals = {}
    /\ non_terminals = {}
    /\ NoParse

\* main(): create gra.txt with the example grammar if it does not exist
CreateGrammarFile ==
    /\ pc = "main"
    /\ ~file_exists
    /\ file_exists' = TRUE
    /\ file' = grammar_content
    /\ UNCHANGED <<pc, grammar, start_symbol, terminals, non_terminals,
                   input_string, tokens, chart, i, j, success, tree>>

\* main(): parser = EarleyParser('gra.txt')
Construct ==
    /\ pc = "main"
    /\ file_exists
    /\ grammar' = load_grammar(file_exists, file)
    /\ start_symbol' = analyze_start_symbol(grammar')
    /\ non_terminals' = analyze_non_terminals(grammar')
    /\ terminals' = analyze_terminals(grammar')
    /\ pc' = IF grammar' = <<>> THEN "exit" ELSE "prompt"
    /\ UNCHANGED <<file_exists, file, input_string, tokens, chart, i, j, success, tree>>

\* main(): input(...) returns an expression
ReadInput ==
    /\ pc = "prompt"
    /\ \E s \in Inputs : input_string' = s
    /\ pc' = "parse"
    /\ UNCHANGED <<file_exists, file, grammar, start_symbol, terminals, non_terminals,
                   tokens, chart, i, j, success, tree>>

\* main(): input(...) returns 'quit'
Quit ==
    /\ pc = "prompt"
    /\ pc' = "exit"
    /\ UNCHANGED <<file_exists, file, grammar, start_symbol, terminals, non_terminals,
                   input_string, tokens, chart, i, j, success, tree>>

\* parse(): from the call to the start of the main loop
ParseStart ==
    /\ pc = "parse"
    /\ tokens' = tokenize(input_string)
    /\ IF NoStartSymbol(start_symbol)
       THEN /\ pc' = "report"
            /\ UNCHANGED <<chart, success, tree>>
       ELSE /\ chart' = InitialChart(grammar, start_symbol[1], Len(tokens'))
            /\ pc' = "loop"
            /\ UNCHANGED <<success, tree>>
    /\ i' = 0
    /\ j' = 0
    /\ UNCHANGED <<file_exists, file, grammar, start_symbol, terminals, non_terminals,
                   input_string>>

InLoop ==
    /\ pc = "loop"
    /\ i <= Len(tokens)
    /\ j < Len(chart[i + 1])

Current == chart[i + 1][j + 1]

LoopFrame ==
    UNCHANGED <<file_exists, file, pc, grammar, start_symbol, terminals, non_terminals,
                input_string, tokens, i, success, tree>>

StepComplete ==
    /\ InLoop
    /\ is_complete(Current)
    /\ chart' = complete(chart, ItemChild(i, j), i)
    /\ j' = NextJ(j)
    /\ LoopFrame

StepPredict ==
    /\ InLoop
    /\ ~is_complete(Current)
    /\ <<next_symbol(Current)>> \in non_terminals
    /\ chart' = predict(grammar, chart, next_symbol(Current), i)
    /\ j' = NextJ(j)
    /\ LoopFrame

StepScan ==
    /\ InLoop
    /\ ~is_complete(Current)
    /\ <<next_symbol(Current)>> \notin non_terminals
    /\ i < Len(tokens)
    /\ next_symbol(Current) = tokens[i + 1][1]
    /\ chart' = scan(chart, Current, i, tokens[i + 1])
    /\ j' = NextJ(j)
    /\ LoopFrame

\* neither branch applies: the terminal after the dot does not match the input
StepNoMatch ==
    /\ InLoop
    /\ ~is_complete(Current)
    /\ <<next_symbol(Current)>> \notin non_terminals
    /\ ~(i < Len(tokens) /\ next_symbol(Current) = tokens[i + 1][1])
    /\ j' = NextJ(j)
    /\ UNCHANGED chart
    /\ LoopFrame

\* the while loop over chart[i] ends and the for loop moves to i + 1
NextPosition ==
    /\ pc = "loop"
    /\ j >= Len(chart[i + 1])
    /\ i < Len(tokens)
    /\ i' = i + 1
    /\ j' = 0
    /\ UNCHANGED <<file_exists, file, pc, grammar, start_symbol, terminals, non_terminals,
                   input_string, tokens, chart, success, tree>>

\* the for loop ends: check for a complete derivation and build its tree
Finish ==
    /\ pc = "loop"
    /\ j >= Len(chart[i + 1])
    /\ i = Len(tokens)
    /\ success' = (StartItems(chart, start_symbol[1], Len(tokens)) # {})
    /\ tree' = IF success' THEN build_tree(chart, start_symbol[1], Len(tokens)) ELSE <<>>
    /\ pc' = "report"
    /\ UNCHANGED <<file_exists, file, grammar, start_symbol, terminals, non_terminals,
                   input_string, tokens, chart, i, j>>

\* main(): print ACEPTA / NO ACEPTA; the locals of this iteration are dead
Report ==
    /\ pc = "report"
    /\ pc' = "prompt"
    /\ input_string' = <<>>
    /\ tokens' = <<>>
    /\ chart' = <<>>
    /\ i' = 0
    /\ j' = 0
    /\ success' = FALSE
    /\ tree' = <<>>
    /\ UNCHANGED <<file_exists, file, grammar, start_symbol, terminals, non_terminals>>

Next ==
    \/ CreateGrammarFile
    \/ Construct
    \/ ReadInput
    \/ Quit
    \/ ParseStart
    \/ StepComplete
    \/ StepPredict
    \/ StepScan
    \/ StepNoMatch
    \/ NextPosition
    \/ Finish
    \/ Report

Spec == Init /\ [][Next]_vars

-----------------------------------------------------------------------------
(* Definitions used to state the properties *)

Returned == pc = "report"

\* the main loop of parse ran (parse did not return before building the chart)
LoopRan == chart # <<>>

Kinds == [k \in 1..Len(tokens) |-> tokens[k][1]]
Lexemes == [k \in 1..Len(tokens) |-> tokens[k][2]]

(* Derivability, independently of the chart: D is a set of triples <<A, a, b>> *)
(* meaning that the non-terminal A derives the token kinds a+1..b.             *)
SymbolDerives(D, sym, a, b) ==
    IF <<sym>> \in Keys(grammar)
    THEN <<<<sym>>, a, b>> \in D
    ELSE b = a + 1 /\ Kinds[b] = sym

RECURSIVE SequenceDerives(_, _, _, _)
SequenceDerives(D, rhs, a, b) ==
    IF rhs = <<>> THEN a = b
    ELSE \E m \in a..b :
            /\ SymbolDerives(D, Head(rhs), a, m)
            /\ SequenceDerives(D, Tail(rhs), m, b)

DeriveStep(D) ==
    D \cup { t \in Keys(grammar) \X (0..Len(tokens)) \X (0..Len(tokens)) :
               /\ t[2] <= t[3]
               /\ \E rhs \in Range(Productions(grammar, t[1])) :
                     SequenceDerives(D, rhs, t[2], t[3]) }

RECURSIVE DeriveClosure(_)
DeriveClosure(D) ==
    LET D2 == DeriveStep(D) IN IF D2 = D THEN D ELSE DeriveClosure(D2)

\* the token kinds are derivable from the first left-hand side of the grammar
InLanguage ==
    /\ grammar # <<>>
    /\ <<grammar[1].lhs, 0, Len(tokens)>> \in DeriveClosure({})

NoEmptyProduction == \A rhs \in AllProductions(grammar) : Len(rhs) >= 1

(* Reading the returned graph *)
RECURSIVE SuccessorsFrom(_, _, _)
SuccessorsFrom(G, v, k) ==
    IF k > Len(G.edges) THEN <<>>
    ELSE (IF G.edges[k][1] = v THEN <<G.edges[k][2]>> ELSE <<>>)
         \o SuccessorsFrom(G, v, k + 1)

\* the children of node v, left to right
Successors(G, v) == SuccessorsFrom(G, v, 1)

Node(G, v) == G.nodes[v + 1]

RECURSIVE Preorder(_, _)
RECURSIVE PreorderOfAll(_, _, _)
Preorder(G, v) == <<v>> \o PreorderOfAll(G, Successors(G, v), 1)
PreorderOfAll(G, vs, k) ==
    IF k > Len(vs) THEN <<>>
    ELSE Preorder(G, vs[k]) \o PreorderOfAll(G, vs, k + 1)

IsLeafToken(G, v) == Node(G, v).type = "terminal"

\* the terminal nodes in pre-order from the root
Leaves(G) == SelectSeq(Preorder(G, 0), LAMBDA v : IsLeafToken(G, v))

Yield(G) == [k \in 1..Len(Leaves(G)) |-> Node(G, Leaves(G)[k]).label]

\* the grammar symbol a node stands for, as a key: its label for an internal
\* node, the kind of the token at its rank among the leaves for a leaf
NodeSymbol(G, v) ==
    IF IsLeafToken(G, v)
    THEN LET r == CHOOSE k \in 1..Len(Leaves(G)) : Leaves(G)[k] = v
         IN  IF r <= Len(tokens) THEN << Kinds[r] >> ELSE << >>
    ELSE Node(G, v).label

ChildSymbols(G, v) ==
    [k \in 1..Len(Successors(G, v)) |-> NodeSymbol(G, Successors(G, v)[k])]

AsKeys(rhs) == [k \in 1..Len(rhs) |-> << rhs[k] >>]

-----------------------------------------------------------------------------
(* C1: with no empty production in the grammar, parse returns True exactly  *)
(* when the token kinds of the input are derivable from the start symbol.   *)
C1_AcceptsExactlyTheLanguage ==
    (Returned /\ NoEmptyProduction) => (success <=> InLanguage)

\* Lemma (belongs to no claim): the same statement when the start symbol is
\* not the empty word, and a state where it accepts three tokens or more
C1_AcceptsLanguageNamedStart ==
    (Returned /\ NoEmptyProduction /\ ~NoStartSymbol(start_symbol))
        => (success <=> InLanguage)

C1_NamedStartAccepted ==
    /\ Returned /\ NoEmptyProduction /\ ~NoStartSymbol(start_symbol)
    /\ success
    /\ Len(tokens) >= 3

(* C2: on acceptance the terminal leaves of the tree, in pre-order, carry    *)
(* the lexemes of the input tokens, in order and one leaf per token.         *)
C2_YieldIsInput ==
    (Returned /\ success) => (tree # <<>> /\ Yield(tree[1]) = Lexemes)

C2_AcceptedDistinctLexemes ==
    /\ Returned /\ success /\ tree # <<>>
    /\ Len(tokens) >= 2
    /\ tokens[1][2] # tokens[2][2]

(* C3: on acceptance the root is labelled with the start symbol, and every   *)
(* non-terminal node is labelled with a non-terminal whose production is     *)
(* spelled, symbol for symbol, by the node's children from left to right.    *)
C3_NodesSpellProductions ==
    (Returned /\ success) =>
        /\ tree # <<>>
        /\ Node(tree[1], 0).type = "non_terminal"
        /\ Node(tree[1], 0).label = start_symbol[1]
        /\ \A v \in 0..(Len(tree[1].nodes) - 1) :
              ~IsLeafToken(tree[1], v) =>
                  /\ Node(tree[1], v).label \in non_terminals
                  /\ \E rhs \in Range(Productions(grammar, Node(tree[1], v).label)) :
                        ChildSymbols(tree[1], v) = AsKeys(rhs)

C3_NodeWithMixedChildren ==
    /\ Returned /\ success /\ tree # <<>>
    /\ \E v \in 0..(Len(tree[1].nodes) - 1) :
          /\ ~IsLeafToken(tree[1], v)
          /\ \E a, b \in Range(Successors(tree[1], v)) :
                IsLeafToken(tree[1], a) /\ ~IsLeafToken(tree[1], b)

(* C4: parse terminates, for left-recursive grammars too: chart[i] never     *)
(* holds more items than there are (production, dot, origin) triples, j      *)
(* never passes the end of chart[i], and every step of the loops over        *)
(* chart[0..n] strictly decreases the number of steps that can remain.       *)
RECURSIVE SumOver(_, _, _)
SumOver(F(_), a, b) == IF a > b THEN 0 ELSE F(a) + SumOver(F, a + 1, b)

ProductionLength(k) == Len(grammar[k].prods)

NumProductions == SumOver(ProductionLength, 1, Len(grammar))

MaxRhsLength ==
    CHOOSE m \in { Len(rhs) : rhs \in AllProductions(grammar) } :
        \A rhs \in AllProductions(grammar) : Len(rhs) <= m

\* the number of (production, dot, origin) triples an item of chart[pos] can have
RowCapacity(pos) == NumProductions * (MaxRhsLength + 1) * (pos + 1)

RowBudget(pos) == RowCapacity(pos) + 1

\* an upper bound of the steps left in the loops over chart[i..n]
Variant == SumOver(RowBudget, i, Len(tokens)) - j

C4_LoopsReachTheirEnd ==
    [][ (pc = "loop" /\ pc' = "loop") =>
            /\ \A p \in 1..Len(chart') : Len(chart'[p]) <= RowCapacity(p - 1)
            /\ j' <= Len(chart'[i' + 1])
            /\ Variant' < Variant
            /\ Variant' >= 0 ]_vars

LeftRecursive(item) ==
    item.rule[2] # <<>> /\ << item.rule[2][1] >> = item.rule[1]

C4_LeftRecursiveParseReturned ==
    /\ Returned /\ LoopRan
    /\ Len(tokens) >= 2
    /\ \E k \in 1..Len(chart[Len(chart)]) : LeftRecursive(chart[Len(chart)][k])

(* C5: no chart[i] ever holds two items equal under item identity.           *)
C5_NoDuplicateItems ==
    \A p \in 1..Len(chart) :
        \A a, b \in 1..Len(chart[p]) :
            a < b => ~ItemEq(chart[p][a], chart[p][b])

(* C6: after the main loop, every item of chart[i] with a non-terminal B     *)
(* after its dot has, for each production of B, the item of that production *)
(* with dot 0 and origin i in chart[i].                                      *)
C6_PredictionClosure ==
    (Returned /\ LoopRan) =>
        \A p \in 1..Len(chart) :
            \A k \in 1..Len(chart[p]) :
                LET item == chart[p][k] IN
                (~is_complete(item) /\ <<next_symbol(item)>> \in non_terminals) =>
                    \A rhs \in Range(Productions(grammar, <<next_symbol(item)>>)) :
                        \E m \in 1..Len(chart[p]) :
                            /\ chart[p][m].rule = << <<next_symbol(item)>>, rhs >>
                            /\ chart[p][m].dot_pos = 0
                            /\ chart[p][m].start_pos = p - 1

C6_PredictedAfterScan ==
    /\ Returned /\ LoopRan
    /\ \E p \in 2..Len(chart) :
          \E k \in 1..Len(chart[p]) :
              /\ ~is_complete(chart[p][k])
              /\ chart[p][k].dot_pos > 0
              /\ Len(Productions(grammar, <<next_symbol(chart[p][k])>>)) >= 2

(* C7: an input with no tokens is rejected: parse returns (False, None).     *)
C7_EmptyInputRejected ==
    (Returned /\ tokens = <<>>) => (success = FALSE /\ tree = <<>>)

(* C8: construction never yields a usable grammar (non-empty, with a start   *)
(* symbol) that holds a production with an empty right-hand side.            *)
C8_EmptyRhsRefused ==
    ~ /\ grammar # <<>>
      /\ start_symbol # <<>>
      /\ \E rhs \in AllProductions(grammar) : Len(rhs) = 0

(* C9: during a parse the items already in the chart stay as they are, in    *)
(* place and with their back-pointers, none is removed, and predict and      *)
(* complete append to chart[i] no item equal to one already there.           *)
ChartKept ==
    /\ Len(chart') = Len(chart)
    /\ \A p \in 1..Len(chart) :
          /\ Len(chart'[p]) >= Len(chart[p])
          /\ SubSeq(chart'[p], 1, Len(chart[p])) = chart[p]

NoCopyAppended ==
    \A k \in (Len(chart[i + 1]) + 1)..Len(chart'[i + 1]) :
        ~InRow(chart'[i + 1][k], SubSeq(chart'[i + 1], 1, k - 1))

C9_FirstBackPointersWin ==
    [][ (pc = "loop" /\ i <= Len(tokens)) => (ChartKept /\ NoCopyAppended) ]_vars

\* a completion already made: item x at chart[p][k] advances y of chart[x.start_pos],
\* and the item stored for it has other back-pointers
C9_AlternativeDiscarded ==
    /\ pc = "loop"
    /\ \E p \in 1..Len(chart) :
          \E k \in 1..Len(chart[p]) :
              LET x == chart[p][k] IN
              /\ (p - 1 < i \/ (p - 1 = i /\ k - 1 < j))
              /\ is_complete(x)
              /\ \E q \in 1..Len(chart[x.start_pos + 1]) :
                    LET y == chart[x.start_pos + 1][q] IN
                    /\ ~is_complete(y)
                    /\ <<next_symbol(y)>> = x.rule[1]
                    /\ \E m \in 1..Len(chart[p]) :
                          /\ chart[p][m].rule = y.rule
                          /\ chart[p][m].dot_pos = y.dot_pos + 1
                          /\ chart[p][m].start_pos = y.start_pos
                          /\ chart[p][m].children # Append(y.children, ItemChild(p - 1, k - 1))

(* C10: after the main loop, for every complete item x of chart[i] with      *)
(* origin s and every item y of chart[s] with x's left-hand side after its   *)
(* dot, chart[i] holds y advanced by one.                                    *)
C10_CompletionClosure ==
    (Returned /\ LoopRan) =>
        \A p \in 1..Len(chart) :
            \A k \in 1..Len(chart[p]) :
                LET x == chart[p][k] IN
                is_complete(x) =>
                    \A q \in 1..Len(chart[x.start_pos + 1]) :
                        LET y == chart[x.start_pos + 1][q] IN
                        (~is_complete(y) /\ <<next_symbol(y)>> = x.rule[1]) =>
                            \E m \in 1..Len(chart[p]) :
                                /\ chart[p][m].rule = y.rule
                                /\ chart[p][m].dot_pos = y.dot_pos + 1
                                /\ chart[p][m].start_pos = y.start_pos

====
